---- MODULE Spec2Model ----
(***************************************************************************)
(* A model of complex/complex.py: the Complex value type with its two      *)
(* synchronised representations (a, b) and (r, theta), its constructor,    *)
(* its property setters and its attribute guard.                           *)
(*                                                                         *)
(* Numbers.  A Python float is modelled as a decimal fixed-point number    *)
(* with eight fractional digits: the integer n stands for n / Scale.       *)
(* Products, quotients, square roots and the trigonometric functions are   *)
(* computed on that grid and rounded to the nearest grid point, as the     *)
(* IEEE operations round to the nearest double.  The grid is coarser than  *)
(* a double (1e-8 against 2e-16), fine enough for the 1e-8 tolerance of    *)
(* compatible_numbers to admit distinct numbers, and it has the property   *)
(* the claims turn on: a conversion followed by its inverse need not give  *)
(* back the number it started from.                                        *)
(***************************************************************************)
EXTENDS Integers, Sequences, FiniteSets, TLC

\* ------------------------------------------------------------ arithmetic

\* one unit: the grid integer of 1.0
Scale == 100000000
\* the limb of the three-limb multiplication, Base * Base = Scale
Base == 10000
\* math.pi, pi / 2 and 2 pi on the grid
Pi == 314159265
HalfPi == 157079633
TwoPi == 628318531
\* grid numbers stay below 19.0 in magnitude, so that no 32-bit step overflows
MaxRep == 1900000000
MaxRoot == 440000000

Abs(x) == IF x < 0 THEN -x ELSE x

\* the element of a set of one element.  The({e : x \in {v}}) is e with x
\* standing for the value of v, computed once: an assignment  x = v
The(S) == CHOOSE y \in S : TRUE

\* x / d for an integer d > 0, rounded to the nearest integer
RoundDiv[x \in Int, d \in Nat] ==
  IF x >= 0 THEN (x + d \div 2) \div d ELSE -((-x + d \div 2) \div d)

\* the exact product of two non-negative grid integers, as <<hi, lo>> standing
\* for hi * Scale + lo with 0 <= lo < Scale
ExactMul[x \in Nat, y \in Nat] ==
  LET x2 == x \div Scale
      x1 == (x % Scale) \div Base
      x0 == x % Base
      y2 == y \div Scale
      y1 == (y % Scale) \div Base
      y0 == y % Base
      t == x1 * y0 + x0 * y1
      u == x0 * y0
      m == (t % Base) + (u \div Base)
      carry == (t \div Base) + (m \div Base)
  IN << x2 * y2 * Scale + (x2 * y1 + x1 * y2) * Base + x2 * y0 + x1 * y1 + x0 * y2 + carry,
        (m % Base) * Base + (u % Base) >>

\* whether the product of two non-negative grid integers is below MaxRep
Fits[x \in Nat, y \in Nat] ==
  LET x2 == x \div Scale
      x1 == (x % Scale) \div Base
      y2 == y \div Scale
      y1 == (y % Scale) \div Base
  IN x2 * y2 * Base + x2 * y1 + x1 * y2 < 19 * Base

\* the exact product x * y when it is below MaxRep, or else a pair above it
Product[x \in Nat, y \in Nat] == IF Fits[x, y] THEN ExactMul[x, y] ELSE <<MaxRep, 1>>

\* an exact product <<hi, lo>> rounded to the nearest multiple of Scale
Nearest[p \in Nat \X Nat] == IF 2 * p[2] >= Scale THEN p[1] + 1 ELSE p[1]

\* the float product x * y
FMul[x \in Int, y \in Int] ==
  IF (x < 0) = (y < 0) THEN Nearest[ExactMul[Abs(x), Abs(y)]]
  ELSE -Nearest[ExactMul[Abs(x), Abs(y)]]

\* x * Scale - (hi * Scale + lo) for an exact product p = <<hi, lo>>: -1 when
\* it is negative, and MaxRep when it is MaxRep or more
Rest[x \in Nat, p \in Nat \X Nat] ==
  IF p[1] > x \/ (p[1] = x /\ p[2] > 0) THEN -1
  ELSE IF x - p[1] >= 20 THEN MaxRep
  ELSE (x - p[1]) * Scale - p[2]

\* the middle of lo..hi, above lo when lo < hi
Mid[lo \in Nat, hi \in Nat] == lo + (hi - lo + 1) \div 2

\* the largest q in lo..hi with q * y <= x * Scale, for x >= 0 and y > 0
DivSearch[x \in Nat, y \in Nat, lo \in Nat, hi \in Nat] ==
  IF lo >= hi THEN lo
  ELSE IF Rest[x, Product[Mid[lo, hi], y]] >= 0
  THEN DivSearch[x, y, Mid[lo, hi], hi]
  ELSE DivSearch[x, y, lo, Mid[lo, hi] - 1]

\* the quotient q of DivSearch, rem = x * Scale - q * y its remainder, rounded
\* to nearest: up when twice the remainder reaches y
DivRound[y \in Nat, q \in Nat, rem \in Nat] == IF rem >= y - rem THEN q + 1 ELSE q

\* the float quotient of x >= 0 by y > 0
DivAbs[x \in Nat, y \in Nat, q \in Nat] == DivRound[y, q, Rest[x, ExactMul[q, y]]]

\* the float quotient x / y for y # 0 (the caller raises ZeroDivisionError)
FDiv[x \in Int, y \in Int] ==
  IF (x < 0) = (y < 0) THEN DivAbs[Abs(x), Abs(y), DivSearch[Abs(x), Abs(y), 0, MaxRep]]
  ELSE -DivAbs[Abs(x), Abs(y), DivSearch[Abs(x), Abs(y), 0, MaxRep]]

\* the largest q in lo..hi with q * q <= x * Scale
SqrtSearch[x \in Nat, lo \in Nat, hi \in Nat] ==
  IF lo >= hi THEN lo
  ELSE IF Rest[x, ExactMul[Mid[lo, hi], Mid[lo, hi]]] >= 0
  THEN SqrtSearch[x, Mid[lo, hi], hi]
  ELSE SqrtSearch[x, lo, Mid[lo, hi] - 1]

\* the root q of SqrtSearch, rem = x * Scale - q * q, rounded to nearest: up
\* when the remainder exceeds q
SqrtRound[q \in Nat, rem \in Nat] == IF rem > q THEN q + 1 ELSE q

\* math.sqrt(x) for x >= 0, q the root of SqrtSearch
SqrtAbs[x \in Nat, q \in Nat] == SqrtRound[q, Rest[x, ExactMul[q, q]]]
Sqrt[x \in Nat] == SqrtAbs[x, SqrtSearch[x, 0, MaxRoot]]

\* term - term * t2 / ((k+1)(k+2)) + ... : the Taylor series of cos (k = 0,
\* term = 1) and of sin (k = 1, term = u), at most n terms
Series[term \in Int, t2 \in Int, k \in Nat, n \in Nat, acc \in Int] ==
  IF n = 0 \/ term = 0 THEN acc
  ELSE Series[-RoundDiv[FMul[term, t2], (k + 1) * (k + 2)], t2, k + 2, n - 1, acc + term]

\* the angle t brought into [-pi, pi)
Reduce[t \in Int] == ((t + Pi) % TwoPi) - Pi

\* cos and sin on [-pi/2, pi/2]
CosHalf[u \in Int] == Series[Scale, FMul[u, u], 0, 12, 0]
SinHalf[u \in Int] == Series[u, FMul[u, u], 1, 12, 0]

\* cos on [-pi, pi): cos(u) = -cos(pi - |u|) beyond pi/2.  Folded(u) is the
\* argument in [-pi/2, pi/2] and CosSign(u) the sign
CosFolded[u \in Int] == IF Abs(u) > HalfPi THEN Pi - Abs(u) ELSE u
CosSign[u \in Int] == IF Abs(u) > HalfPi THEN -1 ELSE 1

\* sin on [-pi, pi): sin(u) = sin(pi - u) above pi/2, sin(-pi - u) below -pi/2
SinFolded[u \in Int] == IF u > HalfPi THEN Pi - u ELSE IF u < -HalfPi THEN -Pi - u ELSE u

\* math.cos(t), math.sin(t)
Cos[t \in Int] == CosSign[Reduce[t]] * CosHalf[CosFolded[Reduce[t]]]
Sin[t \in Int] == SinHalf[SinFolded[Reduce[t]]]

\* u + u^3/6 + 3u^5/40 + ... : term(k+1) = term(k) u^2 (2k+1)^2 / ((2k+2)(2k+3))
AsinSeries[term \in Int, u2 \in Int, k \in Nat, n \in Nat, acc \in Int] ==
  IF n = 0 \/ term = 0 THEN acc
  ELSE AsinSeries[RoundDiv[FMul[term, u2] * (2 * k + 1) * (2 * k + 1), (2 * k + 2) * (2 * k + 3)],
                  u2, k + 1, n - 1, acc + term]

\* math.asin(u) for |u| <= 1/2
Asin[u \in Int] == AsinSeries[u, FMul[u, u], 0, 20, 0]

\* acos(x) from w = asin(x) when |x| <= 1/2, and beyond from the half angle
\* w = asin(sqrt((1 - |x|) / 2)): acos(x) = 2w for x > 0 and pi - 2w for x < 0
HalfAngle[x \in Int] == IF 2 * Abs(x) <= Scale THEN x ELSE Sqrt[(Scale - Abs(x)) \div 2]
AcosOf[x \in Int, w \in Int] ==
  IF 2 * Abs(x) <= Scale THEN HalfPi - w ELSE IF x > 0 THEN 2 * w ELSE Pi - 2 * w

\* math.acos(x) for -1 <= x <= 1 (the caller raises the domain error), in [0, pi]
Acos[x \in Int] == AcosOf[x, Asin[HalfAngle[x]]]

\* ---------------------------------------------------------- Python values

\* None, a float, the float -0.0 (equal to 0.0, printed "-0.0"), a string (the
\* sequence of its characters)
None == [tag |-> "None"]
Flt(n) == [tag |-> "float", v |-> n]
NegZero == [tag |-> "float", v |-> 0, neg |-> TRUE]
Str(cs) == [tag |-> "str", chars |-> cs]

\* the result of a call: the error it raised ("" when it returned) and the
\* instance as the call left it
Ok(self) == [err |-> "", obj |-> self]
Raise(e, self) == [err |-> e, obj |-> self]

ZeroDivisionError == "ZeroDivisionError: float division by zero"
MathDomainError == "ValueError: math domain error"
NegativeNormError == "ValueError: A complex number's norm cannot be negative!"
NotEnoughError == "ValueError: Not enough information provided at Complex number creation."
NotCompatibleError == "ValueError: You specified both cartesian and trigo representations but the values are not compatible"
ForbiddenAssignmentError == "ForbiddenAssignmentError: The Complex class does not allow for new attributes assignment"

PROTECTED_ATTRIBUTES == {"_Complex__a", "_Complex__b", "_Complex__r", "_Complex__theta"}
ATTRIBUTES == {"a", "b", "r", "theta"}

\* ------------------------------------------------------------ conversions

\* 1 / threshold of compatible_numbers: threshold = 1e-8
InvThreshold == 100000000
\* the snap threshold 1e-15 lies below the grid's resolution: of the grid
\* numbers only 0 is smaller in magnitude, abs(x) < 1e-15 iff |n| < Tiny
Tiny == 1

\* compatible_numbers(n1, n2): [err, val]
compatible_numbers(n1, n2) ==
  IF n1 = n2 THEN [err |-> "", val |-> TRUE]
  ELSE IF n1 = 0 THEN [err |-> ZeroDivisionError, val |-> FALSE]
  ELSE [err |-> "",
        val |-> Abs(n1 - n2) <= 20 /\ Abs(n1 - n2) * InvThreshold < Abs(n1)]

\* r_theta_from_ab(a, b) from acos = math.acos(a / r)
polar_of_acos[b \in Int, r \in Int, acos \in Int] ==
  LET theta == IF b > 0 THEN acos ELSE -acos
  IN [err |-> "", r |-> r, theta |-> IF Abs(theta) < Tiny THEN 0 ELSE theta]

\* r_theta_from_ab(a, b) from q = a / r
polar_of_ratio[b \in Int, r \in Int, q \in Int] ==
  IF Abs(q) > Scale THEN [err |-> MathDomainError, r |-> r, theta |-> 0]
  ELSE polar_of_acos[b, r, Acos[q]]

\* r_theta_from_ab(a, b) from r = math.sqrt(a ** 2 + b ** 2)
polar_of_norm[a \in Int, b \in Int, r \in Int] ==
  IF r = 0 THEN [err |-> ZeroDivisionError, r |-> 0, theta |-> 0]
  ELSE polar_of_ratio[b, r, FDiv[a, r]]

\* r_theta_from_ab(a, b): [err, r, theta]
r_theta_from_ab[a \in Int, b \in Int] == polar_of_norm[a, b, Sqrt[FMul[a, a] + FMul[b, b]]]

\* ab_from_r_theta(r, theta) from a = r * cos(theta) and b = r * sin(theta)
snap_ab[a \in Int, b \in Int] ==
  [a |-> IF Abs(a) < Tiny THEN 0 ELSE a, b |-> IF Abs(b) < Tiny THEN 0 ELSE b]

\* ab_from_r_theta(r, theta): [a, b]
ab_from_r_theta[r \in Int, theta \in Int] == snap_ab[FMul[r, Cos[theta]], FMul[r, Sin[theta]]]

\* -------------------------------------------------------- the Complex class

\* an instance: its four private fields __a, __b, __r, __theta
Complex(a, b, r, theta) == [tag |-> "Complex", a |-> a, b |-> b, r |-> r, theta |-> theta]
\* an instance no field of which was assigned yet
Blank == Complex(None, None, None, None)

\* a getter's  if str(x) == "-0.0": return 0.0
PlusZero(x) == IF x = NegZero THEN Flt(0) ELSE x
get_a(self) == PlusZero(self.a)
get_b(self) == PlusZero(self.b)
get_r(self) == PlusZero(self.r)
get_theta(self) == PlusZero(self.theta)

\* the second half of the a and b setters, after the field was assigned
derive_polar(self) ==
  IF get_a(self) = None \/ get_b(self) = None
  THEN Ok([self EXCEPT !.r = None, !.theta = None])
  ELSE The({ IF p.err # "" THEN Raise(p.err, self)
             ELSE Ok([self EXCEPT !.r = Flt(p.r), !.theta = Flt(p.theta)])
             : p \in {r_theta_from_ab[get_a(self).v, get_b(self).v]} })

\* the second half of the r and theta setters
derive_cartesian(self) ==
  IF get_r(self) = None \/ get_theta(self) = None
  THEN Ok([self EXCEPT !.a = None, !.b = None])
  ELSE The({ Ok([self EXCEPT !.a = Flt(c.a), !.b = Flt(c.b)])
             : c \in {ab_from_r_theta[get_r(self).v, get_theta(self).v]} })

\* a variant of set_a that assigns the field and leaves the polar pair as it
\* was; C3 must tell the two apart
store_a(self, value) == Ok([self EXCEPT !.a = value])

set_a(self, value) == The({derive_polar(o) : o \in {[self EXCEPT !.a = value]}})
set_b(self, value) == The({derive_polar(o) : o \in {[self EXCEPT !.b = value]}})
set_r(self, value) == The({derive_cartesian(o) : o \in {[self EXCEPT !.r = value]}})
set_theta(self, value) == The({derive_cartesian(o) : o \in {[self EXCEPT !.theta = value]}})

\* Complex.__setattr__(key, value); super().__setattr__ runs the property
\* setter of a public name and stores a private name as it is
setattr(self, key, value) ==
  IF key \notin ATTRIBUTES /\ key \notin PROTECTED_ATTRIBUTES
  THEN Raise(ForbiddenAssignmentError, self)
  ELSE CASE key = "a" -> set_a(self, value)
         [] key = "b" -> set_b(self, value)
         [] key = "r" -> set_r(self, value)
         [] key = "theta" -> set_theta(self, value)
         [] key = "_Complex__a" -> Ok([self EXCEPT !.a = value])
         [] key = "_Complex__b" -> Ok([self EXCEPT !.b = value])
         [] key = "_Complex__r" -> Ok([self EXCEPT !.r = value])
         [] key = "_Complex__theta" -> Ok([self EXCEPT !.theta = value])

\* compatible_numbers of both polar pairs p and q: "" when both are
\* compatible, or the error of the constructor
both_compatible(p, q) ==
  The({ IF cr.err # "" THEN cr.err
        ELSE IF ~cr.val THEN NotCompatibleError
        ELSE The({ IF ct.err # "" THEN ct.err
                   ELSE IF ~ct.val THEN NotCompatibleError
                   ELSE ""
                   : ct \in {compatible_numbers(p.theta, q.theta)} })
        : cr \in {compatible_numbers(p.r, q.r)} })

\* a variant of keep_supplied that stores the polar pair p derived from a and
\* b in place of the supplied one; C6 must tell the two apart
store_derived(self, p) == Ok([self EXCEPT !.r = Flt(p.r), !.theta = Flt(p.theta)])

\* both pairs supplied and compatible: r and theta stay as they were supplied
keep_supplied(self, p) == Ok(self)

\* Complex._guess_repr
guess_repr(self) ==
  LET cartesian == self.a # None /\ self.b # None
      trigo == self.r # None /\ self.theta # None
  IN IF ~cartesian /\ ~trigo THEN Raise(NotEnoughError, self)
     ELSE IF cartesian
     THEN The({ IF p.err # "" THEN Raise(p.err, self)
                ELSE IF trigo
                THEN The({ IF e # "" THEN Raise(e, self) ELSE keep_supplied(self, p)
                           : e \in {both_compatible(p, [r |-> self.r.v, theta |-> self.theta.v])} })
                ELSE The({ IF x.err # "" THEN x ELSE set_b(x.obj, x.obj.b)
                           : x \in {set_a(self, self.a)} })
                : p \in {r_theta_from_ab[self.a.v, self.b.v]} })
     ELSE The({ IF x.err # "" THEN x ELSE set_theta(x.obj, x.obj.theta)
                : x \in {set_r(self, self.r)} })

\* ----------------------------------------------------------------- strings

\* s.replace(c, "") for a character c
Remove(cs, c) == SelectSeq(cs, LAMBDA x : x # c)

\* the places where sub occurs in cs
Occurrences(cs, sub) ==
  {k \in 1..(Len(cs) - Len(sub) + 1) : SubSeq(cs, k, k + Len(sub) - 1) = sub}

\* sub in cs
Contains(cs, sub) == Occurrences(cs, sub) # {}

Least(S) == CHOOSE k \in S : \A j \in S : k <= j

\* the characters of the strings
Char == {"0", "1", "2", "3", "4", "5", "6", "7", "8", "9", ".", "+", "-", "i", "e", "^",
         "x", "p", "c", "o", "s", "n", "(", ")", "*", " ", "N"}

\* cs.split(sep): the list of the parts between the occurrences of sep
Split[cs \in Seq(Char), sep \in Seq(Char)] ==
  IF ~Contains(cs, sep) THEN <<cs>>
  ELSE LET k == Least(Occurrences(cs, sep))
       IN <<SubSeq(cs, 1, k - 1)>> \o Split[SubSeq(cs, k + Len(sep), Len(cs)), sep]

Digit == {"0", "1", "2", "3", "4", "5", "6", "7", "8", "9"}
DigitVal(c) == CHOOSE d \in 0..9 : <<"0", "1", "2", "3", "4", "5", "6", "7", "8", "9">>[d + 1] = c

\* the integer a sequence of digits writes
IntOf[ds \in Seq(Digit)] ==
  IF ds = <<>> THEN 0 ELSE 10 * IntOf[SubSeq(ds, 1, Len(ds) - 1)] + DigitVal(ds[Len(ds)])

Pow10[n \in Nat] == IF n = 0 THEN 1 ELSE 10 * Pow10[n - 1]

FloatError == "ValueError: could not convert string to float"
IndexError == "IndexError: list index out of range"

\* float(cs) of a string: [err, val].  The literals read are a sign, digits and
\* at most one point (one digit at least); a literal with an exponent, an
\* underscore, inf or nan is not among the modelled inputs.  Digits past the
\* eighth fractional one round to the nearest grid point.
float[cs \in Seq(Char)] ==
  LET signed == cs # <<>> /\ cs[1] \in {"+", "-"}
      body == IF signed THEN Tail(cs) ELSE cs
      dots == Occurrences(body, <<".">>)
      point == IF dots = {} THEN Len(body) + 1 ELSE Least(dots)
      whole == SubSeq(body, 1, point - 1)
      frac == SubSeq(body, point + 1, Len(body))
      kept == SubSeq(frac, 1, IF Len(frac) < 8 THEN Len(frac) ELSE 8)
      literal == /\ Cardinality(dots) <= 1
                 /\ Len(whole) + Len(frac) >= 1
                 /\ \A k \in 1..Len(whole) : whole[k] \in Digit
                 /\ \A k \in 1..Len(frac) : frac[k] \in Digit
      up == IF Len(frac) > 8 /\ DigitVal(frac[9]) >= 5 THEN 1 ELSE 0
      n == IntOf[whole] * Scale + IntOf[kept] * Pow10[8 - Len(kept)] + up
  IN IF ~literal THEN [err |-> FloatError, val |-> None]
     ELSE IF signed /\ cs[1] = "-"
          THEN [err |-> "", val |-> IF n = 0 THEN NegZero ELSE Flt(-n)]
          ELSE [err |-> "", val |-> Flt(n)]

\* float(parts[k]), k counted from 1: the index error of a missing part, or
\* the float of the part
float_part[parts \in Seq(Seq(Char)), k \in Nat] ==
  IF k > Len(parts) THEN [err |-> IndexError, val |-> None] ELSE float[parts[k]]

\* self.r = float(parts[0])
set_r_part(self, parts) ==
  The({ IF f.err # "" THEN Raise(f.err, self) ELSE set_r(self, f.val)
        : f \in {float_part[parts, 1]} })

\* self.theta = float(parts[1])
set_theta_part(self, parts) ==
  The({ IF f.err # "" THEN Raise(f.err, self) ELSE set_theta(self, f.val)
        : f \in {float_part[parts, 2]} })

\* self.a = float(parts[0])
set_a_part(self, parts) ==
  The({ IF f.err # "" THEN Raise(f.err, self) ELSE set_a(self, f.val)
        : f \in {float_part[parts, 1]} })

\* self.b = float(part)
set_b_part(self, part) ==
  The({ IF f.err # "" THEN Raise(f.err, self) ELSE set_b(self, f.val)
        : f \in {part} })

\* self.r = float(cs.split(sep)[0]); self.theta = float(cs.split(sep)[1])
set_polar_parts(self, cs, sep) ==
  The({ IF x.err # "" THEN x ELSE set_theta_part(x.obj, Split[cs, sep])
        : x \in {set_r_part(self, Split[cs, sep])} })

\* self.a = 0.0; self.b = float(s.replace("i", ""))
set_imaginary(self, s) ==
  The({ IF x.err # "" THEN x ELSE set_b_part(x.obj, float[Remove(s, "i")])
        : x \in {set_a(self, Flt(0))} })

\* self.a = float(s); self.b = 0.0
set_real(self, s) ==
  The({ IF x.err # "" THEN x ELSE set_b(x.obj, Flt(0))
        : x \in {set_a_part(self, <<s>>)} })

\* self.a = float(s.split("+")[0]); self.b = float(s.split("+")[1].replace("i", ""))
set_sum(self, s) ==
  The({ IF x.err # "" THEN x
        ELSE set_b_part(x.obj, float[Remove(Split[s, <<"+">>][2], "i")])
        : x \in {set_a_part(self, Split[s, <<"+">>])} })

\* a variant of trig_term that keeps the terms after the first "+"; C17 must
\* tell the two apart
all_terms(s) == Remove(s, "i")

\* ss = s.split("+")[0].replace("i", "")
trig_term(s) == Remove(Split[s, <<"+">>][1], "i")

\* the branches of _guess_repr_from_string on the string s without "(", ")",
\* "*", "x" and " "
guess_repr_from_stripped(self, s) ==
  IF Contains(s, <<"e", "^">>) \/ Contains(s, <<"e", "x", "p">>)
  THEN set_polar_parts(self, Remove(s, "i"),
                       IF Contains(Remove(s, "i"), <<"e", "^">>)
                       THEN <<"e", "^">> ELSE <<"e", "x", "p">>)
  ELSE IF Contains(s, <<"c", "o", "s">>) \/ Contains(s, <<"s", "i", "n">>)
  THEN set_polar_parts(self, trig_term(s),
                       IF Contains(trig_term(s), <<"c", "o", "s">>)
                       THEN <<"c", "o", "s">> ELSE <<"s", "n">>)
  ELSE IF ~Contains(s, <<"+">>)
  THEN IF Contains(s, <<"i">>) THEN set_imaginary(self, s) ELSE set_real(self, s)
  ELSE set_sum(self, s)

\* Complex._guess_repr_from_string
guess_repr_from_string(self, str) ==
  The({ guess_repr_from_stripped(self, s)
        : s \in {Remove(Remove(Remove(Remove(Remove(str, "("), ")"), "*"), "x"), " ")} })

\* self.a = z.a; self.b = z.b; self.r = z.r; self.theta = z.theta
copy_fields(self, z) ==
  The({ IF x1.err # "" THEN x1
        ELSE The({ IF x2.err # "" THEN x2
                   ELSE The({ IF x3.err # "" THEN x3
                              ELSE set_theta(x3.obj, get_theta(z))
                              : x3 \in {set_r(x2.obj, get_r(z))} })
                   : x2 \in {set_b(x1.obj, get_b(z))} })
        : x1 \in {set_a(self, get_a(z))} })

\* a variant of negative_norm that refuses no norm; C9 must tell the two apart
any_norm(r) == FALSE

\* r is not None and r < 0
negative_norm(r) == r # None /\ r.v < 0

\* Complex.__init__(a, b, r, theta, s, z).  float(x) of a number is the number.
init(a0, b0, r0, theta0, s, z0) ==
  LET copy == a0.tag = "Complex"
      z == IF copy THEN a0 ELSE z0
      a == IF copy THEN None ELSE a0
      b == IF copy THEN None ELSE b0
      r == IF copy THEN None ELSE r0
      theta == IF copy THEN None ELSE theta0
      self == Complex(a, b, r, theta)
  IN IF negative_norm(r) THEN Raise(NegativeNormError, Blank)
     ELSE IF z # None
     THEN copy_fields(self, z)
     ELSE IF s # None /\ s.chars # <<>> THEN guess_repr_from_string(self, s.chars)
     ELSE guess_repr(self)

\* --------------------------------------------------------- the operators

TypeError == "TypeError: unsupported operand type(s)"

\* x * y of two floats; a zero product carries the sign of the operands
Times(x, y) ==
  IF FMul[x.v, y.v] = 0 /\ ((x.v < 0 \/ x = NegZero) # (y.v < 0 \/ y = NegZero))
  THEN NegZero ELSE Flt(FMul[x.v, y.v])

\* x / y of two floats: [err, val]
Over(x, y) ==
  IF y.v = 0 THEN [err |-> ZeroDivisionError, val |-> None]
  ELSE IF FDiv[x.v, y.v] = 0 /\ ((x.v < 0 \/ x = NegZero) # (y.v < 0))
  THEN [err |-> "", val |-> NegZero]
  ELSE [err |-> "", val |-> Flt(FDiv[x.v, y.v])]

\* -x of a float
Minus(x) == IF x = NegZero THEN Flt(0) ELSE IF x.v = 0 THEN NegZero ELSE Flt(-x.v)

\* the operand of an operator: other = Complex(s=other) of a string
as_operand(other) ==
  IF other.tag = "str" THEN init(None, None, None, None, other, None) ELSE Ok(other)

\* new.a = new.a + other.a; new.b = new.b + other.b of __add__ (sign = 1) and
\* the differences of __sub__ (sign = -1); new.a = new.a + other of a number
add_parts(new, other, sign) ==
  IF get_a(new) = None \/ (other.tag = "Complex" /\ get_a(other) = None)
  THEN Raise(TypeError, new)
  ELSE The({ IF x.err # "" \/ other.tag # "Complex" THEN x
             ELSE IF get_b(x.obj) = None \/ get_b(other) = None THEN Raise(TypeError, x.obj)
             ELSE set_b(x.obj, Flt(get_b(x.obj).v + sign * get_b(other).v))
             : x \in {set_a(new, Flt(get_a(new).v + sign * (IF other.tag = "Complex"
                                                           THEN get_a(other).v
                                                           ELSE other.v)))} })

\* the norm new.r * other.r of __mul__ (inverse = FALSE) or new.r / other.r of
\* __truediv__ (inverse = TRUE), other a number for a bare number: [err, val]
scaled_norm(r, other, inverse) ==
  IF inverse THEN Over(r, other) ELSE [err |-> "", val |-> Times(r, other)]

\* new.r = new.r * other.r; new.theta = new.theta + other.theta of __mul__, the
\* quotient and the difference of __truediv__; new.r = new.r * other of a number
scale_parts(new, other, inverse) ==
  IF get_r(new) = None \/ (other.tag = "Complex" /\ get_r(other) = None)
  THEN Raise(TypeError, new)
  ELSE The({ IF q.err # "" THEN Raise(q.err, new)
             ELSE The({ IF x.err # "" \/ other.tag # "Complex" THEN x
                        ELSE IF get_theta(x.obj) = None \/ get_theta(other) = None
                        THEN Raise(TypeError, x.obj)
                        ELSE set_theta(x.obj, Flt(get_theta(x.obj).v
                                                  + (IF inverse THEN -1 ELSE 1)
                                                    * get_theta(other).v))
                        : x \in {set_r(new, q.val)} })
             : q \in {scaled_norm(get_r(new),
                                  IF other.tag = "Complex" THEN get_r(other) ELSE other,
                                  inverse)} })

\* the body of __add__, __sub__, __mul__ and __truediv__ after new = Complex(self)
\* and other = Complex(s=other)
operate(new, other, op) ==
  IF op \in {"add", "sub"} THEN add_parts(new, other, IF op = "add" THEN 1 ELSE -1)
  ELSE scale_parts(new, other, op = "div")

\* self + other, self - other, self * other, self / other: [err, obj]
binary(self, other, op) ==
  The({ IF new.err # "" THEN new
        ELSE The({ IF o.err # "" THEN o ELSE operate(new.obj, o.obj, op)
                   : o \in {as_operand(other)} })
        : new \in {init(self, None, None, None, None, None)} })

\* the branch of conjugate for repres "trigo" or "exp":
\* Complex(r=self.r, theta=-self.theta)
conjugate_polar(self, repres) ==
  IF get_r(self) = None \/ get_theta(self) = None THEN Raise(TypeError, Blank)
  ELSE init(None, None, get_r(self), Minus(get_theta(self)), None, None)

UnknownRepresentationError == "ValueError: Unknown representation"

\* Complex.conjugate, a property: repres is always its default, "cartesian"
conjugate(self, repres) ==
  IF repres = "cartesian"
  THEN IF get_a(self) = None \/ get_b(self) = None THEN Raise(TypeError, Blank)
       ELSE init(get_a(self), Minus(get_b(self)), None, None, None, None)
  ELSE IF repres \in {"trigo", "exp"}
  THEN conjugate_polar(self, repres)
  ELSE Raise(UnknownRepresentationError, Blank)

\* one value is at most the other: an ordering in place of the equality
at_most(x, y) == IF x = None \/ y = None THEN x = y ELSE x.v <= y.v

\* x == y of two field values, each a float or None
same_value(x, y) == IF x = None \/ y = None THEN x = y ELSE x.v = y.v

\* a variant of same_pairs that asks for both pairs to be equal; C20 must tell
\* the two apart
same_both_pairs(self, other) ==
  /\ same_value(get_a(self), get_a(other)) /\ same_value(get_b(self), get_b(other))
  /\ same_value(get_r(self), get_r(other)) /\ same_value(get_theta(self), get_theta(other))

\* the two tests of __eq__ on another instance
same_pairs(self, other) ==
  \/ same_value(get_a(self), get_a(other)) /\ same_value(get_b(self), get_b(other))
  \/ same_value(get_r(self), get_r(other)) /\ same_value(get_theta(self), get_theta(other))

\* Complex.__eq__: [err, val]
eq(self, other) ==
  The({ IF o.err # "" THEN [err |-> o.err, val |-> FALSE]
        ELSE IF o.obj.tag = "Complex" THEN [err |-> "", val |-> same_pairs(self, o.obj)]
        ELSE [err |-> "", val |-> same_value(get_a(self), o.obj)]
        : o \in {as_operand(other)} })

\* Complex.__ne__: [err, val]
ne(self, other) ==
  The({ IF e.err # "" THEN e ELSE [err |-> "", val |-> ~e.val]
        : e \in {eq(self, other)} })

\* x ** y of two floats, for the exponents -1.0, 0.0, 1.0 and 2.0:
\* [err, val]; 0.0 ** -1.0 raises ZeroDivisionError
power(x, y) ==
  IF y.v = 0 THEN [err |-> "", val |-> Flt(Scale)]
  ELSE IF y.v = Scale THEN [err |-> "", val |-> x]
  ELSE IF y.v = 2 * Scale THEN [err |-> "", val |-> Times(x, x)]
  ELSE Over(Flt(Scale), x)

\* Complex.__pow__: new = Complex(self); new.r = new.r ** other;
\* new.theta = new.theta * other
pow(self, other) ==
  The({ IF new.err # "" THEN new
        ELSE IF other.tag # "float" THEN Raise(TypeError, new.obj)
        ELSE The({ IF p.err # "" THEN Raise(p.err, new.obj)
                   ELSE The({ IF x.err # "" THEN x
                              ELSE set_theta(x.obj, Times(get_theta(x.obj), other))
                              : x \in {set_r(new.obj, p.val)} })
                   : p \in {power(get_r(new.obj), other)} })
        : new \in {init(self, None, None, None, None, None)} })

\* Complex.__neg__: Complex(a=-self.a, b=-self.b)
neg(self) == init(Minus(get_a(self)), Minus(get_b(self)), None, None, None, None)

\* an arithmetic operator applied to self: [err, obj, same], same telling that
\* the object returned is self itself.  __pos__ returns self; every other
\* operator returns the instance a constructor call made.  The reflected and
\* augmented forms __radd__, __rsub__, __rmul__, __iadd__, ... return
\* self + other, self - other, ...
arithmetic(self, other, op) ==
  IF op = "pos" THEN [err |-> "", obj |-> self, same |-> TRUE]
  ELSE The({ [err |-> res.err, obj |-> res.obj, same |-> FALSE]
             : res \in {IF op = "neg" THEN neg(self)
                        ELSE IF op \in {"pow", "ipow"} THEN pow(self, other)
                        ELSE binary(self, other,
                                    CASE op \in {"add", "radd", "iadd"} -> "add"
                                      [] op \in {"sub", "rsub", "isub"} -> "sub"
                                      [] op \in {"mul", "rmul", "imul"} -> "mul"
                                      [] OTHER -> "div")} })

\* str(x) of a field value, the text an f-string writes: None, or a sign,
\* the digits of the whole part, a point and the fractional digits up to the
\* last one that is not 0, one at least.  Values under 0.0001, which Python
\* writes with an exponent, are not among the modelled inputs
str(x) ==
  IF x = None THEN <<"N", "o", "n", "e">>
  ELSE LET m == Abs(x.v)
           digit(d) == <<"0", "1", "2", "3", "4", "5", "6", "7", "8", "9">>[d + 1]
           whole[k \in Nat] ==
             IF k < 10 THEN <<digit(k)>> ELSE whole[k \div 10] \o <<digit(k % 10)>>
           frac == [k \in 1..8 |-> digit((m \div Pow10[8 - k]) % 10)]
           used == {k \in 1..8 : frac[k] # "0"} \cup {1}
           last_used == CHOOSE k \in used : \A j \in used : j <= k
       IN (IF x.v < 0 \/ x = NegZero THEN <<"-">> ELSE <<>>)
          \o whole[m \div Scale] \o <<".">> \o SubSeq(frac, 1, last_used)

\* Complex.to_string(repres): [err, val], val the characters written.
\* bsign = "+" if self.b > 0 else "-" comes first, a TypeError when b is None
to_string(self, repres) ==
  IF get_b(self) = None THEN [err |-> TypeError, val |-> <<>>]
  ELSE IF repres = "cartesian"
  THEN [err |-> "",
        val |-> str(get_a(self))
                \o (IF get_b(self).v > 0 THEN <<" ", "+", " ">> ELSE <<" ", "-", " ">>)
                \o str(Flt(Abs(get_b(self).v))) \o <<"i">>]
  ELSE IF repres = "trigo"
  THEN [err |-> "",
        val |-> str(get_r(self)) \o <<" ", "*", " ", "(", "c", "o", "s", "(">>
                \o str(get_theta(self)) \o <<")", " ", "+", " ", "i", "s", "i", "n", "(">>
                \o str(get_theta(self)) \o <<")", ")">>]
  ELSE IF repres = "exp"
  THEN [err |-> "",
        val |-> str(get_r(self)) \o <<"e", "^">> \o str(get_theta(self)) \o <<"i">>]
  ELSE [err |-> UnknownRepresentationError, val |-> <<>>]

\* ------------------------------------------------------------ the program

\* z: the instance the program holds, once built; last: the last call made,
\* with its arguments, the error it raised ("" when it returned), the instance
\* as the call left it (obj) and the held instance before the call (pre);
\* n: the calls made on the instance since it was built
VARIABLES z, built, last, n

vars == <<z, built, last, n>>

\* the calls a run makes on the instance once it is built
MaxOps == 2

NoArgs == [a |-> None, b |-> None, r |-> None, theta |-> None, s |-> None, z |-> None]
NoCall == [op |-> "none", key |-> "", val |-> None, args |-> NoArgs,
           err |-> "", obj |-> Blank, pre |-> Blank]

\* the arguments the constructor is called with
CtorA == {None, Flt(0), Flt(Scale)}
CtorB == {None, Flt(0), Flt(Scale)}
CtorR == {None, Flt(-Scale), Flt(0), Flt(Scale), Flt(141421356), Flt(141421357)}
CtorTheta == {None, Flt(0), Flt(Scale), Flt(78539816)}
CtorS == {None, Str(<<>>), Str(<<"1", "+", "1", "i">>), Str(<<"-", "1", "e", "^", "1", "i">>)}
\* the arguments passed beside a source number
BesideA == {None, Flt(Scale)}
BesideB == {None, Flt(0)}
BesideR == {None, Flt(-Scale)}
BesideTheta == {None, Flt(Scale)}
BesideS == {None, Str(<<"1", "+", "1", "i">>)}
\* the values written to a field, the names written to
Values == {None, Flt(0), NegZero, Flt(Scale), Flt(-Scale)}
OtherNames == {"q", "__r", "_Complex__a", "_Complex__theta"}

Init ==
  /\ z = Blank
  /\ built = FALSE
  /\ last = NoCall
  /\ n = 0

\* z = Complex(a, b, r, theta, s, zz): the name is bound when the call returns
Construct(op, a, b, r, theta, s, zz) ==
  \E res \in {init(a, b, r, theta, s, zz)} :
     /\ z' = IF res.err = "" THEN res.obj ELSE z
     /\ built' = (built \/ res.err = "")
     /\ last' = [op |-> op, key |-> "", val |-> None,
                 args |-> [a |-> a, b |-> b, r |-> r, theta |-> theta, s |-> s, z |-> zz],
                 err |-> res.err, obj |-> res.obj, pre |-> z]

\* the first construction, from numbers or a string
New ==
  /\ last.op = "none"
  /\ \E a \in CtorA, b \in CtorB, r \in CtorR, theta \in CtorTheta, s \in CtorS :
       Construct("new", a, b, r, theta, s, None)
  /\ n' = n

\* z = Complex(z), z = Complex(z=z), copy.copy(z): a copy takes the place of
\* its source
Recopy ==
  /\ built
  /\ n < MaxOps
  /\ \E positional \in BOOLEAN :
       Construct("copy", IF positional THEN z ELSE None, None, None, None, None,
                 IF positional THEN None ELSE z)
  /\ n' = n + 1

\* Complex(z, b, r, theta, s) and Complex(a, b, r, theta, s, z=z): a copy made
\* with other arguments beside the source
CopyBeside ==
  /\ built
  /\ last.op = "new"
  /\ \E a \in BesideA \cup {z}, b \in BesideB, r \in BesideR, theta \in BesideTheta,
        s \in BesideS :
       Construct("copy", a, b, r, theta, s, IF a = z THEN None ELSE z)
  /\ n' = n + 1

\* z.<key> = value, from outside the class
Assign(key, value) ==
  /\ built
  /\ n < MaxOps
  /\ \E res \in {setattr(z, key, value)} :
     /\ z' = res.obj
     /\ built' = built
     /\ last' = [op |-> "set", key |-> key, val |-> value, args |-> NoArgs,
                 err |-> res.err, obj |-> res.obj, pre |-> z]
     /\ n' = n + 1

\* a write to one of the four public fields
Write == \E key \in ATTRIBUTES, value \in Values : Assign(key, value)

\* a write to any other name
Poke == \E key \in OtherNames, value \in Values : Assign(key, value)

\* an instance is built and then written to through its four fields, or copied
Next == New \/ Write \/ Recopy
Spec == Init /\ [][Next]_vars

\* an instance is built
NextNew == New
SpecNew == Init /\ [][NextNew]_vars

\* an instance is built and copied
NextCopy == New \/ CopyBeside
SpecCopy == Init /\ [][NextCopy]_vars

\* an instance is built and written to under any name
NextAttr == New \/ Write \/ Poke
SpecAttr == Init /\ [][NextAttr]_vars

\* the angles of a polar pair, one of them beyond pi
PairTheta == CtorTheta \cup {Flt(4 * Scale)}

\* the first construction, from a cartesian pair or from a polar pair
NewPair ==
  /\ last.op = "none"
  /\ \E a \in CtorA, b \in CtorB, r \in CtorR, theta \in PairTheta :
       /\ (a = None /\ b = None) \/ (r = None /\ theta = None)
       /\ Construct("new", a, b, r, theta, None, None)
  /\ n' = n

\* the right operands of an operator: the instances the constructor returns
\* for a cartesian pair, or for a norm and an angle of 0 or 1
Operands ==
  {res.obj : res \in {x \in {init(a, b, r, theta, None, None)
                             : a \in CtorA, b \in CtorB, r \in CtorR,
                               theta \in {None, Flt(0), Flt(Scale)}}
                      : x.err = ""}}
\* the bare numbers an operator is applied to
Numbers == {Flt(0), Flt(Scale), Flt(-Scale), Flt(2 * Scale)}

\* z + other, z - other, z * other, z / other, once in a run: the operands
\* stay as they are
Operate(op, other) ==
  /\ built
  /\ last.op = "new"
  /\ \E res \in {binary(z, other, op)} :
     /\ z' = z
     /\ built' = built
     /\ last' = [op |-> op, key |-> "", val |-> other, args |-> NoArgs,
                 err |-> res.err, obj |-> res.obj, pre |-> z]
     /\ n' = n

\* an operator applied to the instance and another instance, number or string
Apply ==
  \E op \in {"add", "sub", "mul", "div"}, other \in Operands \cup Numbers \cup (BesideS \ {None}) :
     Operate(op, other)

\* an instance is built and is the left operand of an operator
NextOp == NewPair \/ Apply
SpecOp == Init /\ [][NextOp]_vars

\* i = Complex(0, 1), the pure imaginary number of the module
i == init(Flt(0), Flt(Scale), None, None, None, None).obj

\* the numbers x and y of an expression x + y * i
Reals == {Flt(-3 * Scale), Flt(-2 * Scale), Flt(-Scale), Flt(-50000000), Flt(0), Flt(25000000),
          Flt(50000000), Flt(Scale), Flt(2 * Scale), Flt(3 * Scale)}

\* x + y * i: i.__rmul__(y) is i * y, and its __radd__(x) adds x to it
unit_expression(x, y) ==
  The({ IF yi.err # "" THEN yi ELSE binary(yi.obj, x, "add")
        : yi \in {binary(i, y, "mul")} })

\* number = x + y * i, as the first statement of a run
Express ==
  /\ last.op = "none"
  /\ \E x \in Reals, y \in Reals :
       \E res \in {unit_expression(x, y)} :
          /\ z' = IF res.err = "" THEN res.obj ELSE z
          /\ built' = (res.err = "")
          /\ last' = [op |-> "unit", key |-> "", val |-> None,
                      args |-> [NoArgs EXCEPT !.a = x, !.b = y],
                      err |-> res.err, obj |-> res.obj, pre |-> z]
  /\ n' = n

\* a number is written as x + y * i
NextUnit == Express
SpecUnit == Init /\ [][NextUnit]_vars

\* the numeric literals a string is written with
Literals == {<<"0">>, <<"1">>, <<"2">>, <<"-", "1">>, <<"+", "1">>, <<"1", ".", "5">>}

\* the forms of the strings: the exponential form in its two spellings, a real
\* and an imaginary number, a sum, a sum with a further term, and the
\* trigonometric form with and without its cosine term
FormOf(form, n1, t1, n2, t2) ==
  CASE form = "e^" -> n1 \o <<"e", "^">> \o t1 \o <<"i">>
    [] form = "exp" -> n1 \o <<"e", "x", "p", "(">> \o t1 \o <<"i", ")">>
    [] form = "x" -> n1
    [] form = "xi" -> n1 \o <<"i">>
    [] form = "x+yi" -> n1 \o <<"+">> \o t1 \o <<"i">>
    [] form = "x+y+zi" -> n1 \o <<"+">> \o t1 \o <<"+">> \o n2 \o <<"i">>
    [] form = "cos+isin" -> n1 \o <<"c", "o", "s", "(">> \o t1 \o <<")", " ", "+", " ">>
                            \o n2 \o <<"i", "s", "i", "n", "(">> \o t2 \o <<")">>
    [] form = "isin" -> n1 \o <<"i", "s", "i", "n", "(">> \o t1 \o <<")">>

\* Complex(s=<a string of one of the forms>)
NewForm ==
  /\ last.op = "none"
  /\ \E form \in {"e^", "exp", "x", "xi", "x+yi", "x+y+zi", "cos+isin", "isin"},
        n1 \in Literals, t1 \in Literals, n2 \in Literals, t2 \in Literals :
       Construct("new", None, None, None, None, Str(FormOf(form, n1, t1, n2, t2)), None)
  /\ n' = n

\* an instance is built from a string of one of the forms
NextForm == NewForm
SpecForm == Init /\ [][NextForm]_vars

\* the greatest length of the free texts
MaxLen == 5

\* the numbers of the text cs are written with one digit: no digit follows a
\* digit once the imaginary markers are removed
OneDigit(cs) ==
  \A k \in 1..(Len(Remove(cs, "i")) - 1) :
     ~(Remove(cs, "i")[k] \in Digit /\ Remove(cs, "i")[k + 1] \in Digit)

\* the non-empty texts of at most MaxLen characters
Texts ==
  {cs \in UNION {[1..k -> {"1", "-", "+", "i", "s", "n"}] : k \in 1..MaxLen} : OneDigit(cs)}

\* Complex(s=<any text>)
NewText ==
  /\ last.op = "none"
  /\ \E cs \in Texts : Construct("new", None, None, None, None, Str(cs), None)
  /\ n' = n

\* an instance is built from any text
NextText == NewText
SpecText == Init /\ [][NextText]_vars

\* z.conjugate of the instance just constructed; args stay those the instance
\* was constructed from
Conjugate ==
  /\ built
  /\ last.op = "new"
  /\ \E res \in {conjugate(z, "cartesian")} :
     /\ z' = z
     /\ built' = built
     /\ last' = [op |-> "conjugate", key |-> "", val |-> None, args |-> last.args,
                 err |-> res.err, obj |-> res.obj, pre |-> z]
     /\ n' = n

\* an instance is built and its conjugate is taken
NextConj == New \/ NewPair \/ Conjugate
SpecConj == Init /\ [][NextConj]_vars

\* the instances the constructor returns for its arguments
Instances ==
  {res.obj : res \in {x \in {init(a, b, r, theta, None, None)
                             : a \in CtorA, b \in CtorB, r \in CtorR, theta \in CtorTheta}
                      : x.err = ""}}

\* z == other (negated = FALSE) or z != other (negated = TRUE); obj is the
\* value returned
Compare ==
  /\ built
  /\ last.op = "new"
  /\ \E negated \in BOOLEAN, other \in Instances \cup Numbers \cup (BesideS \ {None}) :
       \E res \in {IF negated THEN ne(z, other) ELSE eq(z, other)} :
          /\ z' = z
          /\ built' = built
          /\ last' = [op |-> IF negated THEN "ne" ELSE "eq", key |-> "", val |-> other,
                      args |-> NoArgs, err |-> res.err, obj |-> res.val, pre |-> z]
          /\ n' = n

\* an instance is built from one pair and compared
NextEq == NewPair \/ Compare
SpecEq == Init /\ [][NextEq]_vars

\* p = +z, p = -z, p = z ** other, p = z + other, ..., and the reflected and
\* augmented forms: same tells that p is the object z
Bind ==
  /\ built
  /\ last.op = "new"
  /\ \E op \in {"pos", "neg", "pow", "add", "sub", "mul", "div", "radd", "rsub", "rmul",
               "iadd", "isub", "imul", "idiv", "ipow"},
        other \in Numbers \cup {i} :
       \E res \in {arithmetic(z, other, op)} :
          /\ z' = z
          /\ built' = built
          /\ last' = [op |-> op, key |-> "", val |-> other, args |-> NoArgs,
                      err |-> res.err, obj |-> res.obj, pre |-> z, same |-> res.same]
          /\ n' = n

\* p.<key> = value, a write to a field of the instance an operator returned:
\* it is a write to z when p is the object z
WriteResult ==
  /\ last.op \notin {"none", "new", "result"}
  /\ last.err = ""
  /\ \E key \in ATTRIBUTES, value \in Numbers :
       \E res \in {setattr(last.obj, key, value)} :
          /\ z' = IF last.same THEN res.obj ELSE z
          /\ built' = built
          /\ last' = [op |-> "result", key |-> key, val |-> value, args |-> NoArgs,
                      err |-> res.err, obj |-> res.obj, pre |-> z]
          /\ n' = n

\* an instance is built, an operator is applied to it and its result is
\* written to
NextFresh == NewPair \/ Bind \/ WriteResult
SpecFresh == Init /\ [][NextFresh]_vars

\* z == z, z == x, x == z, x == y and z == y for two further instances x, y
Relate ==
  /\ built
  /\ last.op = "new"
  /\ \E x \in Instances, y \in Instances :
       /\ z' = z
       /\ built' = built
       /\ last' = [op |-> "relate", key |-> "", val |-> x, args |-> NoArgs, err |-> "",
                   obj |-> [zz |-> eq(z, z).val, zx |-> eq(z, x).val, xz |-> eq(x, z).val,
                            xy |-> eq(x, y).val, zy |-> eq(z, y).val],
                   pre |-> z, other |-> y]
       /\ n' = n

\* an instance is built and compared with itself and two others
NextRel == NewPair \/ Relate
SpecRel == Init /\ [][NextRel]_vars

\* w = Complex(s=z.to_string(repres)), then w == z: obj is the instance
\* parsed, val the text and same the answer of ==.  The fields of z are 0 or
\* at least 0.0001 in size, the numbers Python writes without an exponent
Reparse ==
  /\ built
  /\ last.op = "new"
  /\ \A x \in {z.a, z.b, z.r, z.theta} : x = None \/ x.v = 0 \/ Abs(x.v) >= Base
  /\ \E repres \in {"cartesian", "trigo", "exp", "polar"} :
       \E text \in {to_string(z, repres)} :
          \E res \in {IF text.err # "" THEN Raise(text.err, Blank)
                      ELSE init(None, None, None, None, Str(text.val), None)} :
             /\ z' = z
             /\ built' = built
             /\ last' = [op |-> "reparse", key |-> repres, val |-> Str(text.val),
                         args |-> NoArgs, err |-> res.err, obj |-> res.obj, pre |-> z,
                         same |-> res.err = "" /\ eq(res.obj, z).val]
             /\ n' = n

\* an instance is built, written in one of the styles and read back
NextStr == New \/ Reparse
SpecStr == Init /\ [][NextStr]_vars

\* ------------------------------------------------------------- the claims

IsNumber(v) == v # None /\ v.tag = "float"
AllSet(o) == o.a # None /\ o.b # None /\ o.r # None /\ o.theta # None
AllUnset(o) == o.a = None /\ o.b = None /\ o.r = None /\ o.theta = None

\* the last call was a write of value to one of the four public fields
Wrote == last.op = "set" /\ last.key \in ATTRIBUTES
\* the other field of the pair of a public field
Companion(key) ==
  CASE key = "a" -> "b" [] key = "b" -> "a" [] key = "r" -> "theta" [] key = "theta" -> "r"

\* C1: once an instance is constructed, and after any sequence of writes of a
\* number or of None to its four public fields, either all four fields are
\* set or all four are unset.
C1_AllSetOrAllUnset == built => (AllSet(z) \/ AllUnset(z))

\* C2: the norm of a constructed instance is never negative, whatever path
\* constructed it and whatever was written to its fields.
C2_NormNonNegative == built => (z.r = None \/ z.r.v >= 0)

\* the opposite pair as the conversion functions give it from the pair of the
\* written field key of the instance o
Converted(o, key) ==
  IF key \in {"a", "b"}
  THEN [r |-> Flt(r_theta_from_ab[get_a(o).v, get_b(o).v].r),
        theta |-> Flt(r_theta_from_ab[get_a(o).v, get_b(o).v].theta)]
  ELSE [a |-> Flt(ab_from_r_theta[get_r(o).v, get_theta(o).v].a),
        b |-> Flt(ab_from_r_theta[get_r(o).v, get_theta(o).v].b)]

\* C3: after a write of a number to a public field that returns normally, the
\* written field holds the written value and its companion is unchanged; the
\* opposite pair is the conversion of the now-current pair when the companion
\* is set, and is unset when the companion is unset.
C3_WriteDerivesOppositePair ==
  (Wrote /\ last.err = "" /\ IsNumber(last.val)) =>
    /\ z[last.key] = last.val
    /\ z[Companion(last.key)] = last.pre[Companion(last.key)]
    /\ IF last.pre[Companion(last.key)] = None
       THEN IF last.key \in {"a", "b"} THEN z.r = None /\ z.theta = None
                                      ELSE z.a = None /\ z.b = None
       ELSE IF last.key \in {"a", "b"}
            THEN z.r = Converted(z, last.key).r /\ z.theta = Converted(z, last.key).theta
            ELSE z.a = Converted(z, last.key).a /\ z.b = Converted(z, last.key).b

\* a write of 1.0 to a, beside b set, returned and changed the norm
C3_Witness ==
  /\ Wrote /\ last.err = "" /\ last.key = "a" /\ last.val = Flt(Scale)
  /\ last.pre.b # None /\ last.pre.a # Flt(Scale)
  /\ z.r # last.pre.r

\* C4: a write to a public field that raises leaves the four fields as they
\* were before the write.
C4_FailedWriteChangesNothing == (Wrote /\ last.err # "") => z = last.pre

\* the last call was Complex(a, b, r, theta) with four numbers, r >= 0, and no
\* string
BothPairs ==
  /\ last.op = "new"
  /\ IsNumber(last.args.a) /\ IsNumber(last.args.b)
  /\ IsNumber(last.args.r) /\ IsNumber(last.args.theta)
  /\ last.args.r.v >= 0
  /\ last.args.s = None

\* n1 and n2 are neither equal nor within the relative difference 1e-8 of n1
Differ(n1, n2) ==
  n1 # n2 /\ (n1 = 0 \/ Abs(n1 - n2) > 20 \/ Abs(n1 - n2) * InvThreshold >= Abs(n1))

\* the polar pair derived from the supplied a and b differs from the supplied
\* one, in the norm or in the angle (the angle of the origin is taken as 0)
Conflict ==
  \/ Differ(Sqrt[FMul[last.args.a.v, last.args.a.v] + FMul[last.args.b.v, last.args.b.v]],
            last.args.r.v)
  \/ Differ(r_theta_from_ab[last.args.a.v, last.args.b.v].theta, last.args.theta.v)

\* C5: a construction from a cartesian pair and a polar pair that are not
\* compatible raises the error of incompatible values, and no other error.
C5_ConflictRaisesNotCompatible == (BothPairs /\ Conflict) => last.err = NotCompatibleError

\* C6: a construction from a cartesian pair and a polar pair that pass the
\* compatibility check holds exactly the four supplied values.
C6_CompatibleKeepsSupplied ==
  (BothPairs /\ last.err = "") =>
    /\ z.a = last.args.a /\ z.b = last.args.b
    /\ z.r = last.args.r /\ z.theta = last.args.theta

\* Complex(1, 1, r=1.41421357, theta=0.78539816) was constructed: the supplied
\* norm is not the derived one, 1.41421356, and is within the tolerance
C6_Witness ==
  /\ BothPairs /\ last.err = "" /\ built
  /\ last.args.a = Flt(Scale) /\ last.args.b = Flt(Scale)
  /\ last.args.r = Flt(141421357)
  /\ r_theta_from_ab[Scale, Scale].r = 141421356

\* the last call was a copy construction with no argument beside the source
PlainCopy ==
  /\ last.op = "copy"
  /\ last.args.b = None /\ last.args.r = None /\ last.args.theta = None /\ last.args.s = None
  /\ (last.args.a = None \/ last.args.z = None)

\* C7: a copy construction from a constructed instance succeeds (with, so the
\* claim goes on, the four fields of the copy equal to those of the source).
C7_CopySucceeds == PlainCopy => last.err = ""

\* C8: a construction from a source number has the outcome of the copy made
\* with no other argument, whatever is passed beside the source.
C8_OtherArgumentsIgnored ==
  last.op = "copy" =>
    /\ last.err = init(last.pre, None, None, None, None, None).err
    /\ last.obj = init(last.pre, None, None, None, None, None).obj

C10_OtherNamesForbidden ==
  (last.op = "set" /\ last.key \notin ATTRIBUTES) =>
    (last.err = ForbiddenAssignmentError /\ z = last.pre)

\* the last call was z + other or z - other with another instance
SumOfInstances == last.op \in {"add", "sub"} /\ last.val.tag = "Complex"
\* the sum, or the difference, of the real parts and of the imaginary parts of
\* the two operands
SumOfParts ==
  IF last.op = "add"
  THEN [a |-> Flt(get_a(last.pre).v + get_a(last.val).v),
        b |-> Flt(get_b(last.pre).v + get_b(last.val).v)]
  ELSE [a |-> Flt(get_a(last.pre).v - get_a(last.val).v),
        b |-> Flt(get_b(last.pre).v - get_b(last.val).v)]

\* C11: z1 + z2 and z1 - z2 succeed whenever the instance of the summed (the
\* subtracted) real and imaginary parts is itself constructible (and are, so
\* the claim goes on, that instance), whatever values the fields take while
\* they are updated one after the other.  Stated for a left operand of norm
\* other than 0, the one a copy can be made of (C7).
C11_SumSucceeds ==
  (/\ SumOfInstances
   /\ get_r(last.pre).v # 0
   /\ init(SumOfParts.a, SumOfParts.b, None, None, None, None).err = "") =>
    last.err = ""

\* the last call was z * other, or z / other with other of norm other than 0,
\* with another instance
ProductOfInstances ==
  /\ last.op \in {"mul", "div"} /\ last.val.tag = "Complex"
  /\ (last.op = "div" => get_r(last.val).v # 0)
\* the product of the norms and the sum of the angles of the two operands, or
\* the quotient and the difference
ProductOfParts ==
  IF last.op = "mul"
  THEN [r |-> FMul[get_r(last.pre).v, get_r(last.val).v],
        theta |-> get_theta(last.pre).v + get_theta(last.val).v]
  ELSE [r |-> FDiv[get_r(last.pre).v, get_r(last.val).v],
        theta |-> get_theta(last.pre).v - get_theta(last.val).v]

\* C12: z1 * z2 succeeds for all constructed instances, z1 of norm 0 among
\* them, and returns the instance of norm norm1 * norm2 and angle
\* angle1 + angle2, with the cartesian pair converted from this polar pair;
\* z1 / z2, for z2 of norm other than 0, likewise with norm1 / norm2 and
\* angle1 - angle2.
C12_ProductOfNormsSumOfAngles ==
  ProductOfInstances =>
    /\ last.err = ""
    /\ get_r(last.obj).v = ProductOfParts.r
    /\ get_theta(last.obj).v = ProductOfParts.theta
    /\ get_a(last.obj).v = ab_from_r_theta[ProductOfParts.r, ProductOfParts.theta].a
    /\ get_b(last.obj).v = ab_from_r_theta[ProductOfParts.r, ProductOfParts.theta].b

\* C13: for all numbers x and y (stated for those Complex(x, y) can be
\* constructed from), the expression x + y * i evaluates without error (to a
\* value, so the claim goes on, equal to Complex(x, y)).
C13_UnitExpressionEvaluates ==
  (/\ last.op = "unit"
   /\ init(last.args.a, last.args.b, None, None, None, None).err = "") =>
    last.err = ""

\* the last call was Complex(s=cs)
FromString(cs) == last.op = "new" /\ last.args.s = Str(cs)

\* C14: for all numeric literals n and t, the strings '<n>e^<t>i' and
\* '<n>exp(<t>i)' both construct the instance of norm n and angle t.
C14_BothSpellingsExponential ==
  \A n1 \in Literals, t1 \in Literals, form \in {"e^", "exp"} :
     FromString(FormOf(form, n1, t1, n1, t1)) =>
       /\ last.err = ""
       /\ z.r = float[n1].val /\ z.theta = float[t1].val

\* the polar pair of the instance o is the conversion of its cartesian pair
PolarDerived(o) ==
  /\ r_theta_from_ab[get_a(o).v, get_b(o).v].err = ""
  /\ get_r(o).v = r_theta_from_ab[get_a(o).v, get_b(o).v].r
  /\ get_theta(o).v = r_theta_from_ab[get_a(o).v, get_b(o).v].theta

\* C15: for every numeric literal x, positive, negative or zero (stated for
\* those written without '+'), the string 'x' constructs the instance of real
\* part x and imaginary part 0, and the string 'xi' the instance of real part
\* 0 and imaginary part x; both constructions succeed, with the polar pair
\* derived from the cartesian one.
C15_RealOrImaginaryString ==
  \A x \in {l \in Literals : ~Contains(l, <<"+">>)} :
     /\ FromString(FormOf("x", x, x, x, x)) =>
          /\ last.err = ""
          /\ get_a(z) = PlusZero(float[x].val) /\ get_b(z) = Flt(0)
          /\ PolarDerived(z)
     /\ FromString(FormOf("xi", x, x, x, x)) =>
          /\ last.err = ""
          /\ get_a(z) = Flt(0) /\ get_b(z) = PlusZero(float[x].val)
          /\ PolarDerived(z)

\* the part of the string cs to the left of its first '+'
LeftOfPlus(cs) == SubSeq(cs, 1, Least(Occurrences(cs, <<"+">>)) - 1)
\* the part to the right of its first '+', the imaginary marker stripped
RightOfPlus(cs) == Remove(SubSeq(cs, Least(Occurrences(cs, <<"+">>)) + 1, Len(cs)), "i")

\* C16: for a cartesian string with a '+', the real part is the number
\* written to the left of the first '+' and the imaginary part the number
\* written by everything to its right, the marker stripped; when that whole
\* right part is not a numeric literal, as with a further '+', the
\* construction fails.
C16_SplitAtFirstPlus ==
  \A form \in {"x+yi", "x+y+zi"}, n1 \in Literals, t1 \in Literals, n2 \in Literals :
     FromString(FormOf(form, n1, t1, n2, n2)) =>
       /\ float[RightOfPlus(last.args.s.chars)].err # "" => last.err # ""
       /\ last.err = "" =>
            /\ get_a(z) = PlusZero(float[LeftOfPlus(last.args.s.chars)].val)
            /\ get_b(z) = PlusZero(float[RightOfPlus(last.args.s.chars)].val)

\* the literals written with digits, a point and a leading '-' only
Unsplit == {l \in Literals : ~Contains(l, <<"+">>)}

\* C17 as claimed: for all numeric literals n1, t1, n2 and t2, the string
\* '<n1>cos(<t1>) + <n2>isin(<t2>)' constructs the instance of norm n1 and
\* angle t1, and the lone '<n1>isin(<t1>)' does too.
C17_AnyLiteralFirstTerm ==
  \A n1 \in Literals, t1 \in Literals, n2 \in Literals, t2 \in Literals,
     form \in {"cos+isin", "isin"} :
     FromString(FormOf(form, n1, t1, n2, t2)) =>
       /\ last.err = ""
       /\ z.r = float[n1].val /\ z.theta = float[t1].val

\* C17, amended: for all decimal literals n1 and t1 written without '+' and
\* all literals n2 and t2, the string '<n1>cos(<t1>) + <n2>isin(<t2>)'
\* constructs the instance of norm n1 and angle t1, whatever n2 and t2, and the
\* lone '<n1>isin(<t1>)' does too; a '+' written inside n1 or t1 cuts the
\* first term there and the construction fails with the float error.
C17_FirstTermDecides ==
  \A n1 \in Literals, t1 \in Literals, n2 \in Literals, t2 \in Literals,
     form \in {"cos+isin", "isin"} :
     FromString(FormOf(form, n1, t1, n2, t2)) =>
       IF n1 \in Unsplit /\ t1 \in Unsplit
       THEN /\ last.err = "" /\ built
            /\ z.r = float[n1].val /\ z.theta = float[t1].val
            /\ z.a = Flt(ab_from_r_theta[z.r.v, z.theta.v].a)
            /\ z.b = Flt(ab_from_r_theta[z.r.v, z.theta.v].b)
       ELSE last.err = FloatError

\* Complex(s="2cos(1) + 0isin(1.5)") was constructed with norm 2 and angle 1
C17_Witness ==
  /\ FromString(FormOf("cos+isin", <<"2">>, <<"1">>, <<"0">>, <<"1", ".", "5">>))
  /\ last.err = "" /\ built
  /\ z.r = Flt(2 * Scale) /\ z.theta = Flt(Scale)

\* C18: the construction from a non-empty string either succeeds or fails
\* with the float error of a part that is not a numeric literal; no other
\* kind of error escapes.
C18_OnlyFloatErrorEscapes ==
  (last.op = "new" /\ last.args.s # None /\ last.args.s.chars # <<>>) =>
    last.err \in {"", FloatError}

\* the last call took the conjugate of an instance constructed from a
\* cartesian pair alone, or from a polar pair alone, of norm other than 0
ConjugateOfCartesian ==
  /\ last.op = "conjugate"
  /\ IsNumber(last.args.a) /\ IsNumber(last.args.b)
  /\ last.args.r = None /\ last.args.theta = None /\ last.args.s = None
ConjugateOfPolar ==
  /\ last.op = "conjugate"
  /\ IsNumber(last.args.r) /\ IsNumber(last.args.theta) /\ last.args.r.v # 0
  /\ last.args.a = None /\ last.args.b = None /\ last.args.s = None

\* two grid numbers differ by no more than the rounding of a conversion, 1e-7
Near(x, y) == Abs(x - y) <= 10

\* C19: the conjugate of an instance constructed from a cartesian pair has
\* the same real part and the negated imaginary part; the conjugate of an
\* instance constructed from a norm and an angle has the same norm and the
\* negated angle (stated up to the rounding of the conversion).  The original
\* is unchanged.
C19_ConjugateNegates ==
  /\ ConjugateOfCartesian =>
       /\ last.err = ""
       /\ get_a(last.obj).v = get_a(last.pre).v
       /\ get_b(last.obj).v = -get_b(last.pre).v
       /\ z = last.pre
  /\ ConjugateOfPolar =>
       /\ last.err = ""
       /\ Near(get_r(last.obj).v, get_r(last.pre).v)
       /\ Near(get_theta(last.obj).v, -get_theta(last.pre).v)
       /\ z = last.pre

\* the last call compared z with another instance, or with a bare number
ComparedInstances == last.op \in {"eq", "ne"} /\ last.val.tag = "Complex"
ComparedNumber == last.op \in {"eq", "ne"} /\ last.val.tag = "float"

\* the (real, imaginary) pairs of o and w are equal, or their (norm, angle)
\* pairs are
EqualPairs(o, w) ==
  \/ get_a(o).v = get_a(w).v /\ get_b(o).v = get_b(w).v
  \/ get_r(o).v = get_r(w).v /\ get_theta(o).v = get_theta(w).v

\* C20: z1 == z2 between two instances is true exactly when their (real,
\* imaginary) pairs are equal or their (norm, angle) pairs are equal; z == x
\* for a bare number x is true exactly when the real part of z equals x,
\* whatever its imaginary part; z != w is the negation of z == w.
C20_EqualityOfPairs ==
  /\ ComparedInstances =>
       /\ last.err = ""
       /\ last.obj = ((last.op = "eq") = EqualPairs(last.pre, last.val))
  /\ ComparedNumber =>
       /\ last.err = ""
       /\ last.obj = ((last.op = "eq") = (get_a(last.pre).v = last.val.v))

\* z == other returned TRUE for two instances of equal (norm, angle) pairs and
\* different imaginary parts
C20_Witness ==
  /\ ComparedInstances /\ last.op = "eq" /\ last.obj = TRUE
  /\ get_r(z) = get_r(last.val) /\ get_theta(z) = get_theta(last.val)
  /\ get_b(z) # get_b(last.val)

\* C21: an arithmetic operator on an instance returns an object other than
\* its operand and leaves the four fields of the operand as they were, and a
\* later write to a field of the result leaves the operand as it was.
C21_OperatorsReturnFresh ==
  /\ (last.op \notin {"none", "new", "result"} /\ last.err = "") =>
       (~last.same /\ z = last.pre)
  /\ last.op = "result" => z = last.pre

\* C22 as stated: on the instances the constructor returns, the pairs given
\* alone or both with a tolerated mismatch, == is reflexive, symmetric and
\* transitive: z == z, z == x exactly when x == z, and z == x and x == y give
\* z == y.
C22_EqualityIsEquivalence ==
  last.op = "relate" =>
    /\ last.obj.zz
    /\ last.obj.zx = last.obj.xz
    /\ (last.obj.zx /\ last.obj.xy) => last.obj.zy

\* C22 amended: on the instances the constructor returns, == is reflexive
\* and symmetric: z == z, and z == x exactly when x == z.
C22_ReflexiveSymmetric ==
  last.op = "relate" => (last.obj.zz /\ last.obj.zx = last.obj.xz)

\* z was compared with an instance of other fields, equal to it both ways,
\* that also equals an instance z does not equal
C22_Witness ==
  /\ last.op = "relate"
  /\ last.val # z
  /\ last.obj.zx /\ last.obj.xz
  /\ last.obj.xy /\ ~last.obj.zy

\* C23: for an instance z and each of the styles 'cartesian', 'trigo' and
\* 'exp', Complex(s=z.to_string(style)) succeeds and is == to z, also when
\* the imaginary part of z is negative or zero.  The formula states that the
\* text is written and read back without an error.
C23_FormatThenParse ==
  (last.op = "reparse" /\ last.key \in {"cartesian", "trigo", "exp"}) => last.err = ""

====
